---------------------------- MODULE Spec2Model ----------------------------
(***************************************************************************)
(* A model of the mcp-client repository: the chat graph of backend.py, the *)
(* prebuilt agent of backend2.py / frontend2.py, the tool loading of the   *)
(* three entry points, the checkpointer cache and the Streamlit handlers   *)
(* of frontend2.py.                                                        *)
(*                                                                         *)
(* Spec      the orchestration loop over the conversation store            *)
(* SpecLoad  tool loading in the three entry points                        *)
(* SpecCkpt  concurrent get_checkpointer calls                             *)
(* SpecUI    the sidebar and chat-input handlers of the web UI             *)
(***************************************************************************)
EXTENDS Naturals, Sequences, FiniteSets, TLC

VARIABLES
    \* ---- process and orchestration loop (backend.py, backend2.py)
    entry,               \* which entry point the process runs
    handle_tool_errors,  \* ToolNode's default: TRUE catches tool errors, FALSE re-raises
    mcp_tools,           \* the loaded tool list (tool names)
    store,               \* chatbot.db: thread_id -> checkpointed messages
    appended,            \* per thread, the messages written to it, in write order
    pc,                  \* "boot", "idle", "chat_node", "tools"
    thread_id,           \* thread of the running (or last) turn
    pre,                 \* history of that thread when the turn started
    llmInput,            \* messages handed to the last Completion Client call
    llmCalls,            \* Completion Client calls made in the turn
    outcome,             \* how the last turn ended
    toolStep,            \* what the last run of the tools node did
    nextId,              \* next fresh message / tool-call identifier
    turns,               \* turns started so far
    \* ---- tool loading (the three entry points) and MCPClientManager
    provider,            \* what the tool provider does at the next fetch
    loadLog,             \* the load operations that returned: fetch and result
    lock,                \* MCPClientManager._lock: "free" or the holder
    mgr_client,          \* MCPClientManager._client is set
    mgr_tools,           \* MCPClientManager._tools
    gt_pc,               \* position of the get_tools call
    gc_pc,               \* position of the get_client call made by get_tools
    gt_caller,           \* who called get_tools
    \* ---- get_checkpointer (frontend2.py)
    cache,               \* _checkpointer_cache["checkpointer"]: 0 or the saver
    conns,               \* connections opened to chatbot.db
    ck_pc,               \* per request, position in get_all_threads
    ck_got,              \* per request, the checkpointer get_checkpointer returned
    \* ---- Streamlit session state (frontend2.py)
    ui_messages,         \* st.session_state.messages
    ui_thread,           \* st.session_state.thread_id
    available_threads,   \* st.session_state.available_threads
    tools_loaded,        \* st.session_state.tools_loaded
    ui_pc,               \* "ready", or "running" while a handler is in asyncio.run
    now,                 \* the clock, in seconds
    \* ---- the browser sessions of one Streamlit process (frontend2.py)
    session_thread,      \* per session, st.session_state.thread_id once set
    assigned             \* the last thread id made from the clock, and what
                         \* it met

orchVars == <<entry, handle_tool_errors, mcp_tools, store, appended, pc, thread_id, pre,
              llmInput, llmCalls, outcome, toolStep, nextId, turns>>

loadVars == <<provider, loadLog, lock, mgr_client, mgr_tools, gt_pc, gc_pc,
              gt_caller>>

ckptVars == <<cache, conns, ck_pc, ck_got>>

uiVars == <<ui_messages, ui_thread, available_threads, tools_loaded, ui_pc, now>>

sessVars == <<session_thread, assigned>>

vars == <<orchVars, loadVars, ckptVars, uiVars, sessVars>>

-----------------------------------------------------------------------------
(* Bounds of the exploration *)

\* identifiers (messages and tool calls) handed out before new turns and new
\* tool-requests stop
MaxIds == 7
\* load operations followed in one run of SpecLoad
MaxLoads == 3
\* seconds the clock of SpecUI runs to
MaxClock == 3

Threads == {"t1", "t2"}
\* concurrent requests that list the threads
Requests == {"r1", "r2", "r3"}
\* browser sessions served by the process
Sessions == {"s1", "s2"}
KnownTool == "get_tasks"
UnknownTool == "no_such_tool"

-----------------------------------------------------------------------------
(* Messages *)

HumanMsg(id) ==
    [id |-> id, type |-> "human", content |-> "q", tool_calls |-> <<>>,
     tool_call_id |-> 0, status |-> ""]

\* a terminal assistant answer: content, no tool calls
AnswerMsg(id) ==
    [id |-> id, type |-> "ai", content |-> "answer", tool_calls |-> <<>>,
     tool_call_id |-> 0, status |-> ""]

\* an assistant tool-request: one ToolCallRecord per element of calls
ToolRequestMsg(id, calls) ==
    [id |-> id, type |-> "ai", content |-> "", tool_calls |-> calls,
     tool_call_id |-> 0, status |-> ""]

ToolMsg(id, call, st) ==
    [id |-> id, type |-> "tool",
     content |-> IF st = "error" THEN "Error" ELSE "result",
     tool_calls |-> <<>>, tool_call_id |-> call.id, status |-> st]

\* the ToolCallRecords of a request naming `names`, identifiers from `first`
MakeCalls(names, first) ==
    [i \in 1..Len(names) |-> [id |-> first + i - 1, name |-> names[i]]]

\* the tool-requests the model is let to make: one known tool, one unknown
\* tool, and both in one request
RequestShapes == {<<KnownTool>>, <<UnknownTool>>, <<KnownTool, UnknownTool>>}

Range(s) == {s[i] : i \in 1..Len(s)}

IsPrefix(s, t) == Len(s) <= Len(t) /\ SubSeq(t, 1, Len(s)) = s

-----------------------------------------------------------------------------
(* Tool loading, binding and the conversation store *)

\* what client.get_tools() can do: raise, or return a tool list
FetchRaises == [ok |-> FALSE, tools |-> <<>>]
FetchOutcomes == {FetchRaises, [ok |-> TRUE, tools |-> <<>>],
                  [ok |-> TRUE, tools |-> <<KnownTool>>]}

\* try: return client.get_tools()  except Exception: return []
load_mcp_tools(fetch) == IF fetch.ok THEN fetch.tools ELSE <<>>

\* a messages channel without the reducer: the last write replaces the list
messages_overwritten(left, right) == right

\* the reducer of ChatState.messages: a message whose id is already in the
\* list replaces that entry, any other message is appended
RECURSIVE add_messages(_, _)
add_messages(left, right) ==
    IF right = <<>> THEN left
    ELSE LET m == Head(right)
             same == {i \in 1..Len(left) : left[i].id = m.id}
         IN  IF same # {}
             THEN add_messages([left EXCEPT ![CHOOSE i \in same : TRUE] = m],
                               Tail(right))
             ELSE add_messages(Append(left, m), Tail(right))

\* a checkpoint that puts the step's writes in front of the thread's messages
CheckpointInFront(t, writes) == [store EXCEPT ![t] = writes \o @]

\* the checkpoint written after a step: the thread's messages merged with the
\* step's writes
Checkpoint(t, writes) == [store EXCEPT ![t] = add_messages(@, writes)]

\* a step's writes reach the thread: the checkpoint, and the log of writes
Commit(t, writes) ==
    /\ store' = Checkpoint(t, writes)
    /\ appended' = [appended EXCEPT ![t] = @ \o writes]

\* binding that hands the model a tool whatever was loaded
BoundToolsAlways(tools) == <<KnownTool>>

\* llm_with_tools: tools are sent to the model only when the list is non-empty,
\* and only then can the model answer with a tool-request
BoundTools(tools) == IF tools # <<>> THEN tools ELSE <<>>

ToolRequestsOf(tools) ==
    IF BoundTools(tools) # <<>> THEN RequestShapes ELSE {}

\* the edge out of chat_node: tools_condition when the graph has a tools node,
\* the fixed edge to END otherwise
Route(tools, last) ==
    IF tools # <<>>
    THEN IF last.type = "ai" /\ last.tool_calls # <<>> THEN "tools" ELSE "END"
    ELSE "END"

\* create_react_agent validates the history before calling the model: every tool
\* call of an assistant message needs a tool message with its identifier
ValidChatHistory(h) ==
    \A i \in 1..Len(h) : \A k \in 1..Len(h[i].tool_calls) :
        \E j \in 1..Len(h) :
            h[j].type = "tool" /\ h[j].tool_call_id = h[i].tool_calls[k].id

ValidatesHistory(e) == e = "backend2"

NoStep == [tools |-> <<>>, calls |-> <<>>, invoked |-> {}, raised |-> {},
           aborted |-> FALSE, results |-> <<>>]

-----------------------------------------------------------------------------
(* The orchestration loop *)

\* backend.py at import: load the tools, bind them, build and compile the graph
Boot ==
    /\ UNCHANGED <<loadVars, ckptVars, uiVars, sessVars>>
    /\ pc = "boot"
    /\ \E f \in FetchOutcomes : mcp_tools' = load_mcp_tools(f)
    /\ pc' = "idle"
    /\ UNCHANGED <<entry, handle_tool_errors, store, appended, thread_id, pre,
                   llmInput, llmCalls, outcome, toolStep, nextId, turns>>

\* the process ends and is started again; chatbot.db stays on disk
Restart ==
    /\ UNCHANGED <<loadVars, ckptVars, uiVars, sessVars>>
    /\ pc = "idle"
    /\ entry = "backend"
    /\ pc' = "boot"
    /\ mcp_tools' = <<>>
    /\ outcome' = "none"
    /\ UNCHANGED <<entry, handle_tool_errors, store, appended, thread_id, pre,
                   llmInput, llmCalls, toolStep, nextId, turns>>

\* a user message arrives for thread t: the input is written to the thread's
\* state and checkpointed before the first node runs.  backend2.chat builds the
\* agent first, which loads the tools again.
Invoke(t) ==
    /\ UNCHANGED <<loadVars, ckptVars, uiVars, sessVars>>
    /\ pc = "idle"
    /\ nextId <= MaxIds
    /\ IF entry = "backend2"
       THEN \E f \in FetchOutcomes : mcp_tools' = load_mcp_tools(f)
       ELSE mcp_tools' = mcp_tools
    /\ Commit(t, <<HumanMsg(nextId)>>)
    /\ thread_id' = t
    /\ pre' = store[t]
    /\ llmCalls' = 0
    /\ outcome' = "running"
    /\ toolStep' = NoStep
    /\ nextId' = nextId + 1
    /\ turns' = turns + 1
    /\ pc' = "chat_node"
    /\ UNCHANGED <<entry, handle_tool_errors, llmInput>>

\* the prebuilt agent refuses a history with an unanswered tool call
AgentInvalidHistory ==
    /\ UNCHANGED <<loadVars, ckptVars, uiVars, sessVars>>
    /\ pc = "chat_node"
    /\ ValidatesHistory(entry)
    /\ ~ValidChatHistory(store[thread_id])
    /\ pc' = "idle"
    /\ outcome' = "invalid_history"
    /\ UNCHANGED <<entry, handle_tool_errors, mcp_tools, store, appended,
                   thread_id, pre, llmInput, llmCalls, toolStep, nextId, turns>>

ModelCallable ==
    /\ pc = "chat_node"
    /\ ValidatesHistory(entry) => ValidChatHistory(store[thread_id])

\* a failed step whose response is written all the same
FailedStepWritesKept(resp) == resp

\* what a failed step leaves in the thread: its writes are dropped
FailedStepWrites(resp) == <<>>

\* the Completion Client call raises: the step writes nothing
ChatNodeFails ==
    /\ UNCHANGED <<loadVars, ckptVars, uiVars, sessVars>>
    /\ ModelCallable
    /\ llmInput' = store[thread_id]
    /\ llmCalls' = llmCalls + 1
    /\ Commit(thread_id, FailedStepWrites(<<AnswerMsg(nextId)>>))
    /\ pc' = "idle"
    /\ outcome' = "llm_error"
    /\ UNCHANGED <<entry, handle_tool_errors, mcp_tools, thread_id, pre,
                   toolStep, nextId, turns>>

\* the Completion Client returns a terminal answer
ChatNodeAnswers ==
    /\ UNCHANGED <<loadVars, ckptVars, uiVars, sessVars>>
    /\ ModelCallable
    /\ llmInput' = store[thread_id]
    /\ llmCalls' = llmCalls + 1
    /\ LET response == AnswerMsg(nextId)
       IN  /\ Commit(thread_id, <<response>>)
           /\ pc' = IF Route(mcp_tools, response) = "tools" THEN "tools" ELSE "idle"
           /\ outcome' = IF Route(mcp_tools, response) = "tools"
                         THEN outcome ELSE "answer"
    /\ nextId' = nextId + 1
    /\ UNCHANGED <<entry, handle_tool_errors, mcp_tools, thread_id, pre,
                   toolStep, turns>>

\* the Completion Client returns a tool-request
ChatNodeRequestsTools ==
    /\ UNCHANGED <<loadVars, ckptVars, uiVars, sessVars>>
    /\ ModelCallable
    /\ nextId <= MaxIds
    /\ \E names \in ToolRequestsOf(mcp_tools) :
        LET response == ToolRequestMsg(nextId, MakeCalls(names, nextId + 1))
        IN  /\ Commit(thread_id, <<response>>)
            /\ pc' = IF Route(mcp_tools, response) = "tools" THEN "tools" ELSE "idle"
            /\ outcome' = IF Route(mcp_tools, response) = "tools"
                          THEN outcome ELSE "answer"
            /\ nextId' = nextId + 1 + Len(names)
    /\ llmInput' = store[thread_id]
    /\ llmCalls' = llmCalls + 1
    /\ UNCHANGED <<entry, handle_tool_errors, mcp_tools, thread_id, pre,
                   toolStep, turns>>

\* ToolNode on one call: a name that is not among the tools gets an error
\* message without any invocation; a tool that raises gets an error message
\* when ToolNode handles tool errors
ToolStatus(tools, call, result) ==
    IF call.name \notin Range(tools) THEN "error"
    ELSE IF result = "ok" THEN "success" ELSE "error"

Invoked(tools, calls) ==
    {calls[i].id : i \in {k \in 1..Len(calls) : calls[k].name \in Range(tools)}}

Raised(tools, calls, results) ==
    {calls[i].id : i \in {k \in 1..Len(calls) :
                            calls[k].name \in Range(tools) /\ results[k] = "raise"}}

ToolResults(tools, calls, results, first) ==
    [i \in 1..Len(calls) |->
        ToolMsg(first + i - 1, calls[i], ToolStatus(tools, calls[i], results[i]))]

\* the tools node: every call of the last assistant message, in order
ToolsNode ==
    /\ UNCHANGED <<loadVars, ckptVars, uiVars, sessVars>>
    /\ pc = "tools"
    /\ LET h == store[thread_id]
           calls == h[Len(h)].tool_calls
       IN \E results \in [1..Len(calls) -> {"ok", "raise"}] :
           /\ \A i \in 1..Len(calls) :
                calls[i].name \notin Range(mcp_tools) => results[i] = "ok"
           /\ LET raised == Raised(mcp_tools, calls, results)
                  aborted == raised # {} /\ ~handle_tool_errors
                  msgs == ToolResults(mcp_tools, calls, results, nextId)
              IN  /\ toolStep' = [tools |-> mcp_tools, calls |-> calls,
                                  invoked |-> Invoked(mcp_tools, calls),
                                  raised |-> raised,
                                  aborted |-> aborted,
                                  results |-> IF aborted THEN <<>> ELSE msgs]
                  /\ IF aborted THEN UNCHANGED <<store, appended>>
                                ELSE Commit(thread_id, msgs)
                  /\ nextId' = IF aborted THEN nextId ELSE nextId + Len(calls)
                  /\ pc' = IF aborted THEN "idle" ELSE "chat_node"
                  /\ outcome' = IF aborted THEN "tool_error" ELSE outcome
    /\ UNCHANGED <<entry, handle_tool_errors, mcp_tools, thread_id, pre,
                   llmInput, llmCalls, turns>>

\* the other parts of the model, at rest
LoadAtRest ==
    /\ provider = FetchRaises
    /\ loadLog = <<>>
    /\ lock = "free"
    /\ mgr_client = FALSE
    /\ mgr_tools = [cached |-> FALSE, tools |-> <<>>]
    /\ gt_pc = "idle"
    /\ gc_pc = "idle"
    /\ gt_caller = "none"

CkptAtRest ==
    /\ cache = 0
    /\ conns = 0
    /\ ck_pc = [r \in Requests |-> "idle"]
    /\ ck_got = [r \in Requests |-> 0]

UIAtRest ==
    /\ ui_messages = <<>>
    /\ ui_thread = "default"
    /\ available_threads = [loaded |-> FALSE, list |-> <<>>]
    /\ tools_loaded = FALSE
    /\ ui_pc = "ready"
    /\ now = 1

\* no session has connected
NoThread == "none"
NoAssignment == [session |-> "none", id |-> NoThread, others |-> {}, stored |-> {}]

SessAtRest ==
    /\ session_thread = [s \in Sessions |-> NoThread]
    /\ assigned = NoAssignment

\* no turn has run
OrchAtRest ==
    /\ handle_tool_errors = TRUE
    /\ mcp_tools = <<>>
    /\ pc = "boot"
    /\ thread_id = "t1"
    /\ pre = <<>>
    /\ llmInput = <<>>
    /\ llmCalls = 0
    /\ outcome = "none"
    /\ toolStep = NoStep
    /\ nextId = 1
    /\ turns = 0

Init ==
    /\ LoadAtRest /\ CkptAtRest /\ UIAtRest /\ SessAtRest
    /\ entry \in {"backend", "backend2"}
    /\ handle_tool_errors \in BOOLEAN
    /\ mcp_tools = <<>>
    /\ store = [t \in Threads |-> <<>>]
    /\ appended = [t \in Threads |-> <<>>]
    /\ pc = IF entry = "backend" THEN "boot" ELSE "idle"
    /\ thread_id = "t1"
    /\ pre = <<>>
    /\ llmInput = <<>>
    /\ llmCalls = 0
    /\ outcome = "none"
    /\ toolStep = NoStep
    /\ nextId = 1
    /\ turns = 0

Next ==
    \/ Boot
    \/ Restart
    \/ \E t \in Threads : Invoke(t)
    \/ AgentInvalidHistory
    \/ ChatNodeFails
    \/ ChatNodeAnswers
    \/ ChatNodeRequestsTools
    \/ ToolsNode

Spec == Init /\ [][Next]_vars

-----------------------------------------------------------------------------
(* Shapes of a thread's history *)

\* the tool messages of h after position i that answer call c
ResultsFor(h, i, c) ==
    {j \in (i + 1)..Len(h) : h[j].type = "tool" /\ h[j].tool_call_id = c.id}

\* every ToolCallRecord of h has exactly one tool-result message after it
NoUnresolvedCall(h) ==
    \A i \in 1..Len(h) : \A k \in 1..Len(h[i].tool_calls) :
        Cardinality(ResultsFor(h, i, h[i].tool_calls[k])) = 1

IsToolRequest(m) == m.type = "ai" /\ m.tool_calls # <<>>
IsAnswer(m) == m.type = "ai" /\ m.tool_calls = <<>> /\ m.content # ""

\* s is a sequence of complete rounds: a tool-request followed by one tool
\* message for each of its calls
RECURSIVE Rounds(_)
Rounds(s) ==
    IF s = <<>> THEN TRUE
    ELSE LET n == Len(s[1].tool_calls)
         IN  /\ IsToolRequest(s[1])
             /\ Len(s) >= 1 + n
             /\ \A k \in 1..n : s[1 + k].type = "tool"
             /\ {s[1 + k].tool_call_id : k \in 1..n}
                  = {s[1].tool_calls[k].id : k \in 1..n}
             /\ Rounds(SubSeq(s, n + 2, Len(s)))

Front(s) == SubSeq(s, 1, Len(s) - 1)
Last(s) == s[Len(s)]

\* what the running (or last) turn has added to its thread
NewPart == SubSeq(store[thread_id], Len(pre) + 1, Len(store[thread_id]))

DistinctIds(h) == \A i, j \in 1..Len(h) : h[i].id = h[j].id => i = j

-----------------------------------------------------------------------------
(* Claims on the orchestration loop *)

\* C1: the Completion Client is never invoked on a history in which a
\* ToolCallRecord lacks its tool-result message (exactly one per call
\* identifier), for graphs built with or without tools.
C1_NeverInvokedWithUnresolvedCall == NoUnresolvedCall(llmInput)

\* C2, as claimed: after a turn whose Completion Client call failed, the stored
\* thread is what it was before the turn.
C2_FailedTurnLeavesThreadUntouched ==
    (pc = "idle" /\ outcome = "llm_error") => store[thread_id] = pre

\* C2, amended: after a turn whose Completion Client call failed, the stored
\* thread is the history before the turn followed by the messages of the steps
\* that completed before the failure: the user message, then complete rounds of
\* tool-request and tool-results; nothing of the failed step is stored and no
\* message is stored twice.
C2_FailedTurnKeepsCompletedSteps ==
    (pc = "idle" /\ outcome = "llm_error") =>
        /\ IsPrefix(pre, store[thread_id])
        /\ Len(NewPart) >= 1
        /\ NewPart[1].type = "human"
        /\ Rounds(Tail(NewPart))
        /\ Cardinality({i \in 1..Len(NewPart) : NewPart[i].type = "human"}) = 1
        /\ DistinctIds(store[thread_id])

\* a Completion Client call failed after a round of tool results
C2_Witness ==
    /\ pc = "idle" /\ outcome = "llm_error"
    /\ llmCalls = 2 /\ Len(NewPart) >= 3 /\ pre # <<>>

\* C4: with an empty tool list, a turn answered without tool calls makes one
\* Completion Client call, ends, and extends the stored thread by exactly the
\* user message followed by the assistant answer.
C4_EmptyToolsTwoMessages ==
    (pc = "idle" /\ outcome = "answer" /\ mcp_tools = <<>>) =>
        /\ llmCalls = 1
        /\ IsPrefix(pre, store[thread_id])
        /\ Len(NewPart) = 2
        /\ NewPart[1].type = "human"
        /\ IsAnswer(NewPart[2])

\* a second turn on a thread, answered with no tools loaded
C4_Witness ==
    /\ pc = "idle" /\ outcome = "answer" /\ mcp_tools = <<>>
    /\ pre # <<>> /\ Len(store[thread_id]) = Len(pre) + 2

\* C5: a turn appends the user message, then each tool-request followed by its
\* tool results, then the final answer, each step after the one before; a turn
\* answered on the second Completion Client call has appended the user message,
\* the tool-request, one tool result per call and the answer (four messages for
\* one call).
C5_TurnAppendsInOrder ==
    (outcome # "none") =>
        /\ IsPrefix(pre, store[thread_id])
        /\ Len(NewPart) >= 1
        /\ NewPart[1].type = "human"
        /\ LET rest == Tail(NewPart)
           IN  CASE pc = "chat_node" -> Rounds(rest)
                 [] pc = "tools" ->
                        /\ rest # <<>>
                        /\ Rounds(Front(rest))
                        /\ IsToolRequest(Last(rest))
                 [] pc = "idle" /\ outcome = "answer" ->
                        /\ rest # <<>>
                        /\ Rounds(Front(rest))
                        /\ IsAnswer(Last(rest))
                        /\ llmCalls = 2 =>
                              /\ IsToolRequest(NewPart[2])
                              /\ Len(NewPart) = 3 + Len(NewPart[2].tool_calls)
                 [] OTHER -> TRUE

\* one tool call, then the answer: four messages
C5_Witness ==
    /\ pc = "idle" /\ outcome = "answer" /\ llmCalls = 2
    /\ Len(NewPart) = 4
    /\ NewPart[2].tool_calls[1].name = KnownTool
    /\ NewPart[3].status = "success"

\* C6: a call that names a tool outside the loaded list is not invoked, and a
\* call that names an unknown tool or whose invocation fails gets an
\* error-bearing tool-result message while the turn goes on to the next
\* Completion Client call.
C6_ToolErrorsBecomeResults ==
    \A k \in 1..Len(toolStep.calls) :
        LET c == toolStep.calls[k]
            unknown == c.name \notin Range(toolStep.tools)
        IN  (unknown \/ c.id \in toolStep.raised) =>
                /\ unknown => c.id \notin toolStep.invoked
                /\ ~toolStep.aborted
                /\ \E j \in 1..Len(toolStep.results) :
                      /\ toolStep.results[j].tool_call_id = c.id
                      /\ toolStep.results[j].status = "error"

\* C7: a thread's stored history is exactly the messages written to it, in
\* write order; every step leaves each thread's history a prefix of what it
\* becomes and changes no thread but the turn's; this holds across restarts.
C7_AppendOnlyOrdered ==
    /\ [](\A t \in Threads : store[t] = appended[t])
    /\ [](outcome # "none" => IsPrefix(pre, store[thread_id]))
    /\ [][\A t \in Threads :
            /\ IsPrefix(store[t], store'[t])
            /\ t # thread_id' => store'[t] = store[t]]_vars

\* the process restarts with histories in both threads
C7_Witness ==
    /\ pc = "boot"
    /\ Len(store["t1"]) >= 3
    /\ Len(store["t2"]) >= 2

-----------------------------------------------------------------------------
(* Tool loading in the three entry points *)

\* backend.py and backend2.py: load_mcp_tools, one fetch inside try/except
LoadMcpTools ==
    /\ entry \in {"backend", "backend2"}
    /\ Len(loadLog) < MaxLoads
    /\ loadLog' = Append(loadLog, [fetch |-> provider,
                                   result |-> load_mcp_tools(provider)])
    /\ \E f \in FetchOutcomes : provider' = f
    /\ UNCHANGED <<lock, mgr_client, mgr_tools, gt_pc, gc_pc, gt_caller>>
    /\ UNCHANGED <<orchVars, ckptVars, uiVars, sessVars>>

\* frontend2.py: init_tools (or create_chatbot) calls manager.get_tools()
CallGetTools(caller) ==
    /\ gt_pc = "idle"
    /\ gt_pc' = "call"
    /\ gt_caller' = caller
    /\ UNCHANGED <<provider, loadLog, lock, mgr_client, mgr_tools, gc_pc>>

InitTools ==
    /\ entry = "frontend2"
    /\ CallGetTools("init_tools")
    /\ UNCHANGED <<orchVars, ckptVars, uiVars, sessVars>>

\* get_tools: async with self._lock
GetTools_Enter ==
    /\ gt_pc = "call"
    /\ lock = "free"
    /\ lock' = "get_tools"
    /\ gt_pc' = "locked"
    /\ UNCHANGED <<provider, loadLog, mgr_client, mgr_tools, gc_pc, gt_caller>>
    /\ UNCHANGED <<orchVars, ckptVars, uiVars, sessVars>>

\* get_tools: if self._tools is None: client = await self.get_client()
GetTools_Body ==
    /\ gt_pc = "locked"
    /\ IF mgr_tools.cached
       THEN gt_pc' = "release" /\ gc_pc' = gc_pc
       ELSE gt_pc' = "await_client" /\ gc_pc' = "call"
    /\ UNCHANGED <<provider, loadLog, lock, mgr_client, mgr_tools, gt_caller>>
    /\ UNCHANGED <<orchVars, ckptVars, uiVars, sessVars>>

\* get_client: async with self._lock
GetClient_Enter ==
    /\ gc_pc = "call"
    /\ lock = "free"
    /\ lock' = "get_client"
    /\ gc_pc' = "locked"
    /\ UNCHANGED <<provider, loadLog, mgr_client, mgr_tools, gt_pc, gt_caller>>
    /\ UNCHANGED <<orchVars, ckptVars, uiVars, sessVars>>

\* get_client: create the client if there is none, release the lock, return it
GetClient_Body ==
    /\ gc_pc = "locked"
    /\ mgr_client' = TRUE
    /\ lock' = "free"
    /\ gc_pc' = "idle"
    /\ gt_pc' = "fetch"
    /\ UNCHANGED <<provider, loadLog, mgr_tools, gt_caller>>
    /\ UNCHANGED <<orchVars, ckptVars, uiVars, sessVars>>

\* get_tools: try: self._tools = await client.get_tools()  except: self._tools = []
GetTools_Fetch ==
    /\ gt_pc = "fetch"
    /\ mgr_tools' = [cached |-> TRUE, tools |-> load_mcp_tools(provider)]
    /\ gt_pc' = "release"
    /\ UNCHANGED <<provider, loadLog, lock, mgr_client, gc_pc, gt_caller>>
    /\ UNCHANGED <<orchVars, ckptVars, uiVars, sessVars>>

\* get_tools: leave the lock and return self._tools
GetTools_Return ==
    /\ gt_pc = "release"
    /\ lock' = "free"
    /\ gt_pc' = "done"
    /\ loadLog' = Append(loadLog, [fetch |-> provider, result |-> mgr_tools.tools])
    /\ UNCHANGED <<provider, mgr_client, mgr_tools, gc_pc, gt_caller>>
    /\ UNCHANGED <<orchVars, ckptVars, uiVars, sessVars>>

\* every step a get_tools call can take
GetToolsStep ==
    \/ GetTools_Enter
    \/ GetTools_Body
    \/ GetClient_Enter
    \/ GetClient_Body
    \/ GetTools_Fetch
    \/ GetTools_Return

GetToolsInProgress == gt_pc \notin {"idle", "done"}

InitLoad ==
    /\ CkptAtRest /\ UIAtRest /\ SessAtRest
    /\ store = [t \in Threads |-> <<>>]
    /\ appended = store
    /\ entry \in {"backend", "backend2", "frontend2"}
    /\ provider \in FetchOutcomes
    /\ loadLog = <<>>
    /\ lock = "free"
    /\ mgr_client = FALSE
    /\ mgr_tools = [cached |-> FALSE, tools |-> <<>>]
    /\ gt_pc = "idle"
    /\ gc_pc = "idle"
    /\ gt_caller = "none"
    /\ OrchAtRest

\* get_client never gets the lock get_tools holds, so the steps after
\* GetTools_Body are not part of any run
NextLoad ==
    \/ LoadMcpTools
    \/ InitTools
    \/ GetTools_Enter
    \/ GetTools_Body

SpecLoad == InitLoad /\ [][NextLoad]_vars

\* C3: in each entry point a load whose fetch raised returned the empty
\* sequence, and a load started while the provider is failing is never left
\* unable to return.
C3_LoadFailsSoft ==
    /\ \A i \in 1..Len(loadLog) :
          ~loadLog[i].fetch.ok => loadLog[i].result = <<>>
    /\ (GetToolsInProgress /\ ~provider.ok) => ENABLED GetToolsStep

\* C9: a get_tools call made while no tool list is cached is never blocked:
\* until it has returned, one of its steps can be taken.
C9_GetToolsNeverBlocks ==
    (gt_caller = "init_tools" /\ gt_pc \notin {"idle", "done"}) =>
        \/ ENABLED GetTools_Enter
        \/ ENABLED GetTools_Body
        \/ ENABLED GetClient_Enter
        \/ ENABLED GetClient_Body
        \/ ENABLED GetTools_Fetch
        \/ ENABLED GetTools_Return

-----------------------------------------------------------------------------
(* get_checkpointer under concurrent requests (frontend2.py) *)

\* get_checkpointer: if "checkpointer" not in _checkpointer_cache
GetCheckpointer_Check(r) ==
    /\ ck_pc[r] = "idle"
    /\ IF cache = 0
       THEN /\ ck_pc' = [ck_pc EXCEPT ![r] = "connecting"]
            /\ ck_got' = ck_got
       ELSE /\ ck_pc' = [ck_pc EXCEPT ![r] = "list"]
            /\ ck_got' = [ck_got EXCEPT ![r] = cache]
    /\ UNCHANGED <<cache, conns>>
    /\ UNCHANGED <<orchVars, loadVars, uiVars, sessVars>>

\* get_checkpointer: conn = await aiosqlite.connect(...); the saver made from it
\* is put in the cache and the cached saver is returned
GetCheckpointer_Connect(r) ==
    /\ ck_pc[r] = "connecting"
    /\ conns' = conns + 1
    /\ cache' = conns + 1
    /\ ck_got' = [ck_got EXCEPT ![r] = conns + 1]
    /\ ck_pc' = [ck_pc EXCEPT ![r] = "list"]
    /\ UNCHANGED <<orchVars, loadVars, uiVars, sessVars>>

\* get_all_threads: the thread ids are read through the checkpointer
GetAllThreads_List(r) ==
    /\ ck_pc[r] = "list"
    /\ ck_pc' = [ck_pc EXCEPT ![r] = "done"]
    /\ UNCHANGED <<cache, conns, ck_got>>
    /\ UNCHANGED <<orchVars, loadVars, uiVars, sessVars>>

InitCkpt ==
    /\ LoadAtRest /\ CkptAtRest /\ UIAtRest /\ OrchAtRest /\ SessAtRest
    /\ entry = "frontend2"
    /\ store = [t \in Threads |-> <<>>]
    /\ appended = store

NextCkpt ==
    \E r \in Requests :
        \/ GetCheckpointer_Check(r)
        \/ GetCheckpointer_Connect(r)
        \/ GetAllThreads_List(r)

SpecCkpt == InitCkpt /\ [][NextCkpt]_vars

\* C10: the process connects to the database at most once and every
\* get_checkpointer call returns the same checkpointer.
C10_OneConnection ==
    /\ conns <= 1
    /\ \A r1, r2 \in Requests :
          (ck_got[r1] # 0 /\ ck_got[r2] # 0) => ck_got[r1] = ck_got[r2]

-----------------------------------------------------------------------------
(* The Streamlit session of frontend2.py *)

\* the thread ids the session can meet, in sorted order: the default thread of
\* backend2.chat and the ids made from the clock
UIThreadOrder ==
    <<"default", "thread_1", "thread_2", "thread_3", "thread_4", "thread_5">>

UIThreads == Range(UIThreadOrder)

\* f"thread_{datetime.now().strftime('%Y%m%d_%H%M%S')}": the clock to the second
ThreadIdAt(sec) == UIThreadOrder[sec + 1]

\* histories other runs on chatbot.db have left: nothing, a direct answer, or a
\* turn with one tool call
StoredShapes ==
    {<<>>,
     <<HumanMsg(1), AnswerMsg(2)>>,
     <<HumanMsg(1), ToolRequestMsg(2, MakeCalls(<<KnownTool>>, 3)),
       ToolMsg(4, [id |-> 3, name |-> KnownTool], "success"), AnswerMsg(5)>>}

\* sorted(list(all_threads)) over the threads that have a checkpoint
ListedThreads == SelectSeq(UIThreadOrder, LAMBDA t : store[t] # <<>>)

UserEntry == [role |-> "user", content |-> "q"]

\* "New Conversation"
NewConversation ==
    /\ ui_pc = "ready"
    /\ ui_thread' = ThreadIdAt(now)
    /\ ui_messages' = <<>>
    /\ UNCHANGED <<available_threads, tools_loaded, ui_pc, now>>
    /\ UNCHANGED <<orchVars, loadVars, ckptVars, sessVars>>

\* "Load Threads": get_all_threads, which gets the checkpointer first
LoadThreads ==
    /\ ui_pc = "ready"
    /\ cache' = IF cache = 0 THEN conns + 1 ELSE cache
    /\ conns' = IF cache = 0 THEN conns + 1 ELSE conns
    /\ available_threads' = [loaded |-> TRUE, list |-> ListedThreads]
    /\ UNCHANGED <<ck_pc, ck_got>>
    /\ UNCHANGED <<ui_messages, ui_thread, tools_loaded, ui_pc, now>>
    /\ UNCHANGED <<orchVars, loadVars, sessVars>>

\* "Load Selected", offered for a listed thread other than the current one
LoadSelected(t) ==
    /\ ui_pc = "ready"
    /\ available_threads.loaded
    /\ t \in Range(available_threads.list)
    /\ t # ui_thread
    /\ ui_thread' = t
    /\ ui_messages' = <<>>
    /\ UNCHANGED <<available_threads, tools_loaded, ui_pc, now>>
    /\ UNCHANGED <<orchVars, loadVars, ckptVars, sessVars>>

\* the tools status block: asyncio.run(init_tools())
ToolsStatus ==
    /\ ui_pc = "ready"
    /\ ~tools_loaded
    /\ CallGetTools("init_tools")
    /\ ui_pc' = "running"
    /\ UNCHANGED <<ui_messages, ui_thread, available_threads, tools_loaded, now>>
    /\ UNCHANGED <<orchVars, ckptVars, sessVars>>

\* "Clear Current Chat"
ClearChat ==
    /\ ui_pc = "ready"
    /\ ui_messages' = <<>>
    /\ UNCHANGED <<ui_thread, available_threads, tools_loaded, ui_pc, now>>
    /\ UNCHANGED <<orchVars, loadVars, ckptVars, sessVars>>

\* the chat input: the prompt is added to the list, then process_message runs,
\* whose create_chatbot calls manager.get_tools() before anything else
Submit ==
    /\ ui_pc = "ready"
    /\ ui_messages' = Append(ui_messages, UserEntry)
    /\ CallGetTools("process_message")
    /\ ui_pc' = "running"
    /\ UNCHANGED <<ui_thread, available_threads, tools_loaded, now>>
    /\ UNCHANGED <<orchVars, ckptVars, sessVars>>

\* a second passes
Tick ==
    /\ now < MaxClock
    /\ now' = now + 1
    /\ UNCHANGED <<ui_messages, ui_thread, available_threads, tools_loaded, ui_pc>>
    /\ UNCHANGED <<orchVars, loadVars, ckptVars, sessVars>>

InitUI ==
    /\ LoadAtRest /\ CkptAtRest /\ OrchAtRest /\ SessAtRest
    /\ entry = "frontend2"
    /\ \E d, o \in StoredShapes :
          store = [t \in UIThreads |->
                      IF t = "default" THEN d
                      ELSE IF t = "thread_1" THEN o ELSE <<>>]
    /\ appended = store
    /\ now = 2
    /\ ui_thread = ThreadIdAt(2)
    /\ ui_messages = <<>>
    /\ available_threads = [loaded |-> FALSE, list |-> <<>>]
    /\ tools_loaded = FALSE
    /\ ui_pc = "ready"

\* the handlers the session can run; a handler that reaches get_tools stays in it
NextUI ==
    \/ NewConversation
    \/ LoadThreads
    \/ \E t \in UIThreads : LoadSelected(t)
    \/ ToolsStatus
    \/ ClearChat
    \/ Submit
    \/ Tick
    \/ GetTools_Enter
    \/ GetTools_Body

SpecUI == InitUI /\ [][NextUI]_vars

\* the user and final-answer messages of a stored history, as the UI lists them
StoredEntries(h) ==
    LET shown == SelectSeq(h, LAMBDA m : m.type = "human" \/ IsAnswer(m))
    IN  [i \in 1..Len(shown) |->
            [role |-> IF shown[i].type = "human" THEN "user" ELSE "assistant",
             content |-> shown[i].content]]

DisplayedEntries ==
    [i \in 1..Len(ui_messages) |->
        [role |-> ui_messages[i].role, content |-> ui_messages[i].content]]

\* C8: whenever the session waits for the next UI action, the displayed user
\* and assistant messages are the user and final-answer messages stored for
\* the current thread, in the same order.
C8_UIMirrorsStore ==
    ui_pc = "ready" => DisplayedEntries = StoredEntries(store[ui_thread])

-----------------------------------------------------------------------------
(* Thread ids of the sessions of one Streamlit process (frontend2.py):      *)
(* every browser session runs the script with its own st.session_state and  *)
(* reads the same clock.                                                     *)

\* the thread ids that have a checkpoint in chatbot.db
StoredThreads == {t \in UIThreads : store[t] # <<>>}

\* the thread ids the other connected sessions hold
OtherSessionThreads(s) ==
    {session_thread[o] : o \in Sessions \ {s}} \ {NoThread}

\* a thread id is made from the clock for session s
AssignThreadId(s) ==
    /\ session_thread' = [session_thread EXCEPT ![s] = ThreadIdAt(now)]
    /\ assigned' = [session |-> s,
                    id      |-> ThreadIdAt(now),
                    others  |-> OtherSessionThreads(s),
                    stored  |-> StoredThreads]

\* first script run of a session: "thread_id" is not in st.session_state
SessionStart(s) ==
    /\ session_thread[s] = NoThread
    /\ AssignThreadId(s)
    /\ UNCHANGED <<orchVars, loadVars, ckptVars, uiVars>>

\* "New Conversation" pressed in a connected session
SessionNewConversation(s) ==
    /\ session_thread[s] # NoThread
    /\ AssignThreadId(s)
    /\ UNCHANGED <<orchVars, loadVars, ckptVars, uiVars>>

InitSess ==
    /\ LoadAtRest /\ CkptAtRest /\ OrchAtRest /\ SessAtRest
    /\ entry = "frontend2"
    /\ \E d, o \in StoredShapes :
          store = [t \in UIThreads |->
                      IF t = "default" THEN d
                      ELSE IF t = "thread_1" THEN o ELSE <<>>]
    /\ appended = store
    /\ now = 2
    /\ ui_thread = "default"
    /\ ui_messages = <<>>
    /\ available_threads = [loaded |-> FALSE, list |-> <<>>]
    /\ tools_loaded = FALSE
    /\ ui_pc = "ready"

NextSess ==
    \/ \E s \in Sessions : SessionStart(s)
    \/ \E s \in Sessions : SessionNewConversation(s)
    \/ Tick

SpecSess == InitSess /\ [][NextSess]_vars

\* C11: a thread id assigned at session start or by "New Conversation" is
\* new: when it is assigned it is the id of no thread stored in chatbot.db and
\* of no other connected session.
C11_AssignedThreadIdIsNew ==
    assigned.session # "none" =>
        /\ assigned.id \notin assigned.stored
        /\ assigned.id \notin assigned.others

=============================================================================
